---- MODULE Spec2Model ----
(***************************************************************************)
(* Model of main_app.py (DEI Intelligence Platform): the synthetic data    *)
(* generator load_industry_data, the scorecard / radar computation of      *)
(* display_benchmarking, the simulated trend of display_trend_analysis,    *)
(* the ROI computation of display_impact_simulator and the dispatch of     *)
(* main().                                                                 *)
(*                                                                         *)
(* Numbers.  Python floats are modelled in exact fixed point:              *)
(*   - fractions and survey scores (gender_diversity, ...,                 *)
(*     inclusion_survey_score) in units of 1/10000, so 0.65 is 6500 and    *)
(*     the survey score 5.0 is 50000;                                      *)
(*   - dei_budget_pct in units of 1/100; revenue_cr in whole crores;       *)
(*   - the simulator's benefits in units of 1/1000 lakh;                   *)
(*   - the ROI, a quotient, as the exact mixed fraction whole + num/den.   *)
(* Floating-point rounding error is not modelled.                          *)
(***************************************************************************)
EXTENDS Integers, Sequences, FiniteSets, TLC

VARIABLES
    pc,                  \* position in main(): "main", "loaded"; "call", "returned" for direct calls
    rng,                 \* state of numpy's process-wide generator (np.random)
    df,                  \* the frame returned by load_industry_data, <<>> before
    first_df,            \* history: the frame returned by the first call
    loads,               \* history: number of calls of load_industry_data
    drew,                \* history: display_trend_analysis has drawn from the generator
    page,                \* what the last run rendered
    company_data,        \* display_benchmarking: row of the selected company
    selected_company,    \* display_benchmarking: st.selectbox value
    benchmark_companies, \* display_benchmarking: st.multiselect value
    metrics,             \* display_benchmarking: the scorecard (progress bars)
    traces,              \* display_benchmarking: radar traces, in order added
    trend_data,          \* display_trend_analysis: simulated rows
    inputs,              \* widget values / arguments of the last computation
    impact               \* display_impact_simulator: computed benefits and ROI

vars == <<pc, rng, df, first_df, loads, drew, page, company_data,
          selected_company, benchmark_companies, metrics, traces, trend_data,
          inputs, impact>>

---------------------------------------------------------------------------
(* Bounds of the model *)

\* runs of main() (each calls load_industry_data once)
MaxLoads == 3
\* longest selection made in an st.multiselect
MaxSel == 3
\* longest comparison list handed to the benchmark loop when called directly
MaxList == 3
\* a normal draw lies within ZMax half standard deviations of its mean
ZMax == 10
\* number of states of the abstract generator
RngMod == 64
\* a uniform draw takes one of UniformSteps equidistant values
UniformSteps == 5
\* directly supplied base scores range over -BaseLo*250 .. BaseHi*250 (1/10000)
BaseLo == 20
BaseHi == 80

---------------------------------------------------------------------------
(* Helpers *)

Max(a, b) == IF a >= b THEN a ELSE b

Min(a, b) == IF a <= b THEN a ELSE b

RECURSIVE Gcd(_, _)
Gcd(a, b) == IF b = 0 THEN a ELSE Gcd(b, a % b)

Range(s) == {s[i] : i \in 1..Len(s)}

\* sequences over S of length at most n
SeqsUpTo(S, n) == UNION {[1..k -> S] : k \in 0..n}

\* the values an st.multiselect returns: distinct options, in selection order
Selections(S, n) ==
    {s \in SeqsUpTo(S, n) : \A i, j \in 1..Len(s) : i # j => s[i] # s[j]}

\* the exact value n/d + k (d > 0) as whole + num/den, 0 <= num/den < 1, lowest terms
Mixed(n, d, k) ==
    LET q == (n - (n % d)) \div d
        r == n % d
        g == Gcd(d, r)
    IN  [whole |-> q + k, num |-> r \div g, den |-> d \div g]

---------------------------------------------------------------------------
(* numpy's process-wide generator, abstracted to RngMod states *)

\* np.random.seed(seed): the state depends on the seed only
ReseedKeepsState(s, seed) == s

Reseed(s, seed) == seed % RngMod

\* every draw advances the generator
NextState(s) == (5 * s + 3) % RngMod

RECURSIVE Advance(_, _)
Advance(s, n) == IF n = 0 THEN s ELSE Advance(NextState(s), n - 1)

\* np.random.normal(mean, sd), sd in the unit of mean and even
Normal(s, mean, sd) == mean + (sd \div 2) * ((s % (2 * ZMax + 1)) - ZMax)

\* np.random.choice(seq)
Choice(s, seq) == seq[(s % Len(seq)) + 1]

\* np.random.uniform(low, high): a value in [low, high)
Uniform(s, low, high) == low + ((high - low) * (s % UniformSteps)) \div UniformSteps

---------------------------------------------------------------------------
(* load_industry_data *)

Seed == 42

companies ==
    <<"TechMahindra", "Infosys", "TCS", "Wipro", "HCL", "Accenture",
      "Capgemini", "Cognizant">>

CompanyNames == Range(companies)

EmployeeChoices ==
    <<5000, 250000, 600000, 200000, 220000, 50000, 300000, 350000>>

\* max(lo, min(hi, x))
ClampNoFloor(lo, hi, x) == Min(hi, x)

Clamp(lo, hi, x) == Max(lo, Min(hi, x))

\* the dict appended for one company; base_score in 1/10000, a multiple of 10
MakeRow(company, base_score, employees, revenue_cr, dei_budget_pct) ==
    [company                |-> company,
     gender_diversity       |-> Clamp(1500, 8500, base_score),
     leadership_diversity   |-> Clamp(1000, 7000, base_score - 1500),
     pay_equity_score       |-> Clamp(6000, 9800, base_score + 1000),
     inclusion_survey_score |-> Clamp(30000, 50000, (base_score * 5) + 20000),
     retention_rate_diverse |-> Clamp(7000, 9500, base_score + 2000),
     promotion_rate_diverse |-> Clamp(800, 2500, (base_score * 3) \div 10),
     employees              |-> employees,
     revenue_cr             |-> revenue_cr,
     dei_budget_pct         |-> dei_budget_pct,
     region                 |-> "India"]

\* one iteration of the loop, the generator being in state s: four draws
DrawRow(company, s) ==
    MakeRow(company,
            Normal(s, 6500, 1500),
            Choice(Advance(s, 1), EmployeeChoices),
            Uniform(Advance(s, 2), 500, 250000),
            Uniform(Advance(s, 3), 10, 250))

\* the frame built by the loop when the generator starts in state s
LoadRows(s) == [i \in 1..Len(companies) |-> DrawRow(companies[i], Advance(s, 4 * (i - 1)))]

\* df[df['company'] == name].iloc[0]
RowOf(frame, name) ==
    frame[CHOOSE i \in 1..Len(frame) :
              /\ frame[i].company = name
              /\ \A j \in 1..(i - 1) : frame[j].company # name]

---------------------------------------------------------------------------
(* display_dashboard: the KPI means *)

RECURSIVE SumSeq(_)
SumSeq(s) == IF s = <<>> THEN 0 ELSE Head(s) + SumSeq(Tail(s))

\* df[column].mean(), exact
Mean(values) == Mixed(SumSeq(values), Len(values), 0)

Kpis(frame) ==
    [avg_gender    |-> Mean([i \in 1..Len(frame) |-> frame[i].gender_diversity]),
     avg_pay       |-> Mean([i \in 1..Len(frame) |-> frame[i].pay_equity_score]),
     avg_inclusion |-> Mean([i \in 1..Len(frame) |-> frame[i].inclusion_survey_score]),
     avg_retention |-> Mean([i \in 1..Len(frame) |-> frame[i].retention_rate_diverse])]

---------------------------------------------------------------------------
(* display_benchmarking *)

\* delta = value - target
DeltaClampedAtZero(value, target) == Max(0, value - target)

Delta(value, target) == value - target

ScoreEntry(metric, value, target) ==
    [metric      |-> metric,
     value       |-> value,
     target      |-> target,
     delta       |-> Delta(value, target),
     delta_color |-> IF Delta(value, target) < 0 THEN "inverse" ELSE "normal"]

\* the list `metrics` with the delta computed for each of its entries
Scorecard(row) ==
    <<ScoreEntry("Gender Diversity", row.gender_diversity, 4000),
      ScoreEntry("Leadership Diversity", row.leadership_diversity, 3000),
      ScoreEntry("Pay Equity", row.pay_equity_score, 9000),
      ScoreEntry("Inclusion", row.inclusion_survey_score \div 5, 8000)>>

categories ==
    <<"Gender Diversity", "Leadership Diversity", "Pay Equity", "Inclusion",
      "Retention", "Promotion Rate">>

\* company_values / bench_values: the six metrics times 100
RadarValues(row) ==
    <<row.gender_diversity * 100,
      row.leadership_diversity * 100,
      row.pay_equity_score * 100,
      (row.inclusion_survey_score \div 5) * 100,
      row.retention_rate_diverse * 100,
      row.promotion_rate_diverse * 100>>

Trace(row) == [name |-> row.company, theta |-> categories, r |-> RadarValues(row)]

\* if bench_company != selected_company
IncludedAlways(bench_company, selected) == TRUE

Included(bench_company, selected) == bench_company # selected

\* the traces added by the loop over benchmark_companies
BenchTraces(frame, bench, selected) ==
    LET Keep(b) == Included(b, selected)
        kept == SelectSeq(bench, Keep)
    IN  [i \in 1..Len(kept) |-> Trace(RowOf(frame, kept[i]))]

---------------------------------------------------------------------------
(* display_ai_analysis and display_trend_analysis *)

AnalysisTypes ==
    {"Industry Trend Analysis", "Inclusion Barrier Detection",
     "Best Practice Identification", "ROI & Business Impact",
     "Regulatory Compliance Risk"}

\* "Trend" in analysis_type
HasTrend(analysis_type) == analysis_type = "Industry Trend Analysis"

\* "Barrier" in analysis_type
HasBarrier(analysis_type) == analysis_type = "Inclusion Barrier Detection"

\* insights.get(analysis_type, default): which canned text is shown
AiResponse(analysis_type) ==
    IF HasTrend(analysis_type) \/ HasBarrier(analysis_type)
    THEN analysis_type
    ELSE "Analysis complete. Please select a specific analysis type."

\* trend_data: twelve rows per company, one normal draw each; months 0..11
TrendRows(frame, cs, s) ==
    [n \in 1..(12 * Len(cs)) |->
        LET company == cs[((n - 1) \div 12) + 1]
            i       == (n - 1) % 12
        IN  [month           |-> i,
             company         |-> company,
             diversity_score |-> RowOf(frame, company).gender_diversity
                                   + (i * 200) + Normal(Advance(s, n - 1), 0, 100),
             inclusion_score |-> RowOf(frame, company).inclusion_survey_score
                                   + (i * 1000)]]

---------------------------------------------------------------------------
(* display_impact_simulator *)

base_salary == 12

\* 0.3 * base_salary, in tenths of a lakh
hiring_cost == 3 * base_salary

\* 1.5 * base_salary, in tenths of a lakh
turnover_cost == 15 * base_salary

\* the widgets' minimum, default and maximum
DiversityIncreases == {5, 15, 50}
InclusionScores == {5, 12, 30}
RetentionImprovements == {3, 8, 20}
BudgetAllocations == {10, 50, 200}
EmployeeCounts == {100, 5000, 100000}

\* budget_allocation * 100000
InvestedSameUnit(budget_allocation) == budget_allocation

InvestedAmount(budget_allocation) == budget_allocation * 100000

\* ((total_benefits - invested) / invested) * 100, total_benefits in 1/1000:
\* the quotient is total_benefits / (10 * invested) - 100
RoiZeroBudgetDefault(total_benefits, invested) ==
    IF invested = 0
    THEN [status |-> "ok", value |-> Mixed(0, 1, 0)]
    ELSE [status |-> "ok",
          value  |-> IF invested > 0
                     THEN Mixed(total_benefits, 10 * invested, -100)
                     ELSE Mixed(-total_benefits, -(10 * invested), -100)]

Roi(total_benefits, invested) ==
    IF invested = 0
    THEN [status |-> "ZeroDivisionError"]
    ELSE [status |-> "ok",
          value  |-> IF invested > 0
                     THEN Mixed(total_benefits, 10 * invested, -100)
                     ELSE Mixed(-total_benefits, -(10 * invested), -100)]

\* the body of `if st.button("Calculate Business Impact")` up to the ROI
Impact(diversity_increase, inclusion_score, retention_improvement, budget_allocation, employee_count) ==
    LET reduced_turnover  == employee_count * retention_improvement * turnover_cost
        hiring_savings    == employee_count * diversity_increase * hiring_cost
        productivity_gain ==
            (employee_count * inclusion_score * base_salary * 15) \div 10
        total_benefits    == reduced_turnover + hiring_savings + productivity_gain
        roi               == Roi(total_benefits, InvestedAmount(budget_allocation))
    IN  IF roi.status # "ok"
        THEN [status |-> roi.status]
        ELSE [status            |-> "ok",
              reduced_turnover  |-> reduced_turnover,
              hiring_savings    |-> hiring_savings,
              productivity_gain |-> productivity_gain,
              total_benefits    |-> total_benefits,
              invested          |-> InvestedAmount(budget_allocation),
              roi               |-> roi.value]

SimulatorInputs(d, i, r, b, e) ==
    [diversity_increase    |-> d,
     inclusion_score       |-> i,
     retention_improvement |-> r,
     budget_allocation     |-> b,
     employee_count        |-> e]

---------------------------------------------------------------------------
(* The application: main() runs from top to bottom on every interaction *)

NoImpact == [status |-> "none"]

Init ==
    /\ pc = "main"
    /\ rng \in 0..(RngMod - 1)
    /\ df = <<>>
    /\ first_df = <<>>
    /\ loads = 0
    /\ drew = FALSE
    /\ page = [module |-> "none"]
    /\ company_data = <<>>
    /\ selected_company = ""
    /\ benchmark_companies = <<>>
    /\ metrics = <<>>
    /\ traces = <<>>
    /\ trend_data = <<>>
    /\ inputs = <<>>
    /\ impact = NoImpact

\* a run of main() starts on an empty page
FreshPage ==
    /\ page' = [module |-> "none"]
    /\ company_data' = <<>>
    /\ selected_company' = ""
    /\ benchmark_companies' = <<>>
    /\ metrics' = <<>>
    /\ traces' = <<>>
    /\ trend_data' = <<>>
    /\ inputs' = <<>>
    /\ impact' = NoImpact

\* main() up to df = platform.load_industry_data()
LoadIndustryData ==
    /\ pc = "main"
    /\ loads < MaxLoads
    /\ LET s0 == Reseed(rng, Seed)
       IN  /\ df' = LoadRows(s0)
           /\ rng' = Advance(s0, 4 * Len(companies))
           /\ first_df' = IF loads = 0 THEN LoadRows(s0) ELSE first_df
    /\ loads' = loads + 1
    /\ pc' = "loaded"
    /\ drew' = drew
    /\ FreshPage

DisplayDashboard ==
    /\ pc = "loaded"
    /\ page' = [module |-> "dashboard", kpis |-> Kpis(df)]
    /\ pc' = "main"
    /\ UNCHANGED <<rng, df, first_df, loads, drew, company_data,
                   selected_company, benchmark_companies, metrics, traces,
                   trend_data, inputs, impact>>

\* display_benchmarking with the widgets returning selected and bench
Benchmarking(selected, bench) ==
    /\ selected_company' = selected
    /\ benchmark_companies' = bench
    /\ company_data' = RowOf(df, selected)
    /\ metrics' = Scorecard(RowOf(df, selected))
    /\ traces' = <<Trace(RowOf(df, selected))>> \o BenchTraces(df, bench, selected)
    /\ page' = [module |-> "benchmarking"]

DisplayBenchmarking ==
    /\ pc = "loaded"
    /\ \E selected \in CompanyNames, bench \in Selections(CompanyNames, MaxSel) :
           Benchmarking(selected, bench)
    /\ pc' = "main"
    /\ UNCHANGED <<rng, df, first_df, loads, drew, trend_data,
                   inputs, impact>>

DisplayAiAnalysis ==
    /\ pc = "loaded"
    /\ \E analysis_type \in AnalysisTypes,
          selected_companies \in Selections(CompanyNames, MaxSel),
          pressed \in BOOLEAN :
           IF ~pressed
           THEN /\ page' = [module |-> "ai", response |-> ""]
                /\ UNCHANGED <<rng, drew, trend_data>>
           ELSE IF HasTrend(analysis_type)
           THEN /\ page' = [module |-> "ai", response |-> AiResponse(analysis_type)]
                /\ trend_data' = TrendRows(df, selected_companies, rng)
                /\ rng' = Advance(rng, 12 * Len(selected_companies))
                /\ drew' = (drew \/ Len(selected_companies) > 0)
           ELSE IF HasBarrier(analysis_type)
           THEN \* display_barrier_analysis is not defined
                /\ page' = [module |-> "ai", response |-> AiResponse(analysis_type),
                            error |-> "NameError"]
                /\ UNCHANGED <<rng, drew, trend_data>>
           ELSE /\ page' = [module |-> "ai", response |-> AiResponse(analysis_type)]
                /\ UNCHANGED <<rng, drew, trend_data>>
    /\ pc' = "main"
    /\ UNCHANGED <<df, first_df, loads, company_data, selected_company,
                   benchmark_companies, metrics, traces, inputs, impact>>

DisplayInterventions ==
    /\ pc = "loaded"
    /\ page' = [module |-> "interventions"]
    /\ pc' = "main"
    /\ UNCHANGED <<rng, df, first_df, loads, drew, company_data,
                   selected_company, benchmark_companies, metrics, traces,
                   trend_data, inputs, impact>>

DisplayImpactSimulator ==
    /\ pc = "loaded"
    /\ \E d \in DiversityIncreases, i \in InclusionScores,
          r \in RetentionImprovements, b \in BudgetAllocations,
          e \in EmployeeCounts, pressed \in BOOLEAN :
           /\ inputs' = SimulatorInputs(d, i, r, b, e)
           /\ impact' = IF pressed THEN Impact(d, i, r, b, e) ELSE NoImpact
    /\ page' = [module |-> "impact"]
    /\ pc' = "main"
    /\ UNCHANGED <<rng, df, first_df, loads, drew, company_data,
                   selected_company, benchmark_companies, metrics, traces,
                   trend_data>>

Next ==
    \/ LoadIndustryData
    \/ DisplayDashboard
    \/ DisplayBenchmarking
    \/ DisplayAiAnalysis
    \/ DisplayInterventions
    \/ DisplayImpactSimulator

Spec == Init /\ [][Next]_vars

---------------------------------------------------------------------------
(* The computations called directly, on arguments the widgets do not restrict *)

\* base scores handed to the row construction: -0.5 .. 2.0 in steps of 0.025
BaseScores == {250 * k : k \in (-BaseLo)..BaseHi}

\* arguments handed to the impact computation, valid and invalid
AnyPercent == {-5, 0, 3, 15, 50}
AnyBudget == {-10, 0, 10, 50, 200}
AnyEmployees == {-100, 0, 100, 5000, 100000}

\* the state after one run of load_industry_data
InitCalls ==
    /\ pc = "call"
    /\ rng = Advance(Reseed(0, Seed), 4 * Len(companies))
    /\ df = LoadRows(Reseed(0, Seed))
    /\ first_df = df
    /\ loads = 1
    /\ drew = FALSE
    /\ page = [module |-> "none"]
    /\ company_data = <<>>
    /\ selected_company = ""
    /\ benchmark_companies = <<>>
    /\ metrics = <<>>
    /\ traces = <<>>
    /\ trend_data = <<>>
    /\ inputs = <<>>
    /\ impact = NoImpact

\* the row construction of load_industry_data for any base score, followed by
\* the scorecard and the radar values of display_benchmarking for that row
CallScorecard ==
    /\ pc = "call"
    /\ \E company \in CompanyNames, base_score \in BaseScores, s \in 0..(RngMod - 1) :
           LET row == MakeRow(company, base_score, Choice(s, EmployeeChoices),
                              Uniform(s, 500, 250000), Uniform(NextState(s), 10, 250))
           IN  /\ inputs' = [base_score |-> base_score]
               /\ company_data' = row
               /\ selected_company' = company
               /\ benchmark_companies' = <<>>
               /\ metrics' = Scorecard(row)
               /\ traces' = <<Trace(row)>>
    /\ page' = [module |-> "benchmarking"]
    /\ impact' = NoImpact
    /\ pc' = "returned"
    /\ UNCHANGED <<rng, df, first_df, loads, drew, trend_data>>

\* display_benchmarking for any comparison list, repeated names included
CallCompare ==
    /\ pc = "call"
    /\ \E selected \in CompanyNames, bench \in SeqsUpTo(CompanyNames, MaxList) :
           Benchmarking(selected, bench)
    /\ inputs' = <<>>
    /\ impact' = NoImpact
    /\ pc' = "returned"
    /\ UNCHANGED <<rng, df, first_df, loads, drew, trend_data>>

\* the impact computation for any arguments
CallImpact ==
    /\ pc = "call"
    /\ \E d \in AnyPercent, i \in AnyPercent, r \in AnyPercent,
          b \in AnyBudget, e \in AnyEmployees :
           /\ inputs' = SimulatorInputs(d, i, r, b, e)
           /\ impact' = Impact(d, i, r, b, e)
    /\ page' = [module |-> "impact"]
    /\ company_data' = <<>>
    /\ selected_company' = ""
    /\ benchmark_companies' = <<>>
    /\ metrics' = <<>>
    /\ traces' = <<>>
    /\ pc' = "returned"
    /\ UNCHANGED <<rng, df, first_df, loads, drew, trend_data>>

NextCalls ==
    \/ CallScorecard
    \/ CallCompare
    \/ CallImpact

SpecCalls == InitCalls /\ [][NextCalls]_vars

---------------------------------------------------------------------------
(* Properties *)

Between(lo, x, hi) == lo <= x /\ x <= hi

RowWithinBounds(row) ==
    /\ Between(1500, row.gender_diversity, 8500)
    /\ Between(1000, row.leadership_diversity, 7000)
    /\ Between(6000, row.pay_equity_score, 9800)
    /\ Between(30000, row.inclusion_survey_score, 50000)
    /\ Between(7000, row.retention_rate_diverse, 9500)
    /\ Between(800, row.promotion_rate_diverse, 2500)
    /\ \A x \in {row.gender_diversity, row.leadership_diversity,
                 row.pay_equity_score, row.retention_rate_diverse,
                 row.promotion_rate_diverse} : Between(0, x, 10000)
    /\ Between(10000, row.inclusion_survey_score, 50000)

\* C1: whatever base score is sampled (below 0 and above 1 included), every
\* bounded field of the row built from it lies inside its clamp interval, hence
\* the fractions inside [0,1] and the survey score inside [1,5]; the same holds
\* of every row of the loaded frame.
C1_FieldsWithinBounds ==
    /\ \A i \in 1..Len(df) : RowWithinBounds(df[i])
    /\ page.module = "benchmarking" => RowWithinBounds(company_data)

\* a row built from a base score below 0: every field sits on its lower bound
C1_Witness ==
    /\ pc = "returned"
    /\ page.module = "benchmarking"
    /\ inputs.base_score < 0
    /\ company_data.gender_diversity = 1500
    /\ company_data.inclusion_survey_score = 30000

\* C2: every call of load_industry_data returns the frame the first call
\* returned, whatever ran in between (display_trend_analysis included, which
\* draws from the same generator).
C2_LoadIsDeterministic ==
    loads >= 1 => df = first_df

\* a second call made after display_trend_analysis advanced the generator
C2_Witness ==
    /\ pc = "loaded"
    /\ loads >= 2
    /\ drew
    /\ df = first_df

\* C3: the scorecard has one entry per target metric (four, with the targets
\* 0.40, 0.30, 0.90, 0.80, inclusion being inclusion_survey_score / 5); the
\* value plotted for each is the metric scaled to [0,100]; the gap, scaled, is
\* the scaled value minus the scaled target, negative when below target.
C3_ScorecardGaps ==
    page.module = "benchmarking" =>
        /\ Len(metrics) = 4
        /\ [i \in 1..4 |-> metrics[i].metric] = SubSeq(categories, 1, 4)
        /\ [i \in 1..4 |-> metrics[i].target] = <<4000, 3000, 9000, 8000>>
        /\ metrics[1].value = company_data.gender_diversity
        /\ metrics[2].value = company_data.leadership_diversity
        /\ metrics[3].value = company_data.pay_equity_score
        /\ metrics[4].value * 5 = company_data.inclusion_survey_score
        /\ \A i \in 1..4 :
               /\ traces[1].r[i] = 100 * metrics[i].value
               /\ Between(0, traces[1].r[i], 100 * 10000)
               /\ 100 * metrics[i].delta = traces[1].r[i] - (100 * metrics[i].target)
               /\ (metrics[i].value < metrics[i].target) <=> (metrics[i].delta < 0)

\* a scorecard with a metric above its target and one below (negative gap)
C3_Witness ==
    /\ page.module = "benchmarking"
    /\ Len(metrics) = 4
    /\ metrics[1].delta > 0
    /\ metrics[3].delta < 0
    /\ metrics[3].delta_color = "inverse"

\* names of the traces added for the comparison entities, in order
ComparisonNames == [i \in 1..(Len(traces) - 1) |-> traces[i + 1].name]

\* C4: when the focal entity is in the comparison list, at any position, the
\* comparison results are exactly the other listed entities, never the focal
\* one, which appears exactly once, as the first (focal) result.
C4_FocalExcluded ==
    page.module = "benchmarking" =>
        /\ traces[1].name = selected_company
        /\ Range(ComparisonNames) = Range(benchmark_companies) \ {selected_company}
        /\ Cardinality({i \in 1..Len(traces) : traces[i].name = selected_company}) = 1

\* the focal entity selected in the middle of a list of three
C4_Witness ==
    /\ page.module = "benchmarking"
    /\ Len(benchmark_companies) = 3
    /\ benchmark_companies[2] = selected_company
    /\ Len(traces) = 3

\* s without the later occurrences of its elements
RECURSIVE FirstOccurrences(_)
FirstOccurrences(s) ==
    IF s = <<>> THEN <<>>
    ELSE LET init == FirstOccurrences(SubSeq(s, 1, Len(s) - 1))
             last == s[Len(s)]
         IN  IF last \in Range(init) THEN init ELSE Append(init, last)

C6_RoiSameUnit ==
    impact.status = "ok" =>
        impact.roi = Roi(impact.total_benefits, inputs.budget_allocation).value

\* C7: with a budget of 0 the impact computation fails with a division by zero
\* and yields no ROI, whatever the other arguments are.
C7_ZeroBudgetFails ==
    (page.module = "impact" /\ impact.status # "none" /\ inputs.budget_allocation = 0)
        => impact.status = "ZeroDivisionError"

\* the computation was run with budget 0 and valid other arguments
C7_Witness ==
    /\ page.module = "impact"
    /\ inputs.budget_allocation = 0
    /\ inputs.employee_count = 5000
    /\ inputs.diversity_increase = 15
    /\ impact.status = "ZeroDivisionError"

InvalidInputs(in) ==
    \/ in.diversity_increase < 0
    \/ in.inclusion_score < 0
    \/ in.retention_improvement < 0
    \/ in.employee_count <= 0
    \/ in.budget_allocation <= 0

C9_LoadLeavesGenerator ==
    [][LoadIndustryData => rng' = rng]_vars

\* C10: for the values the simulator's widgets allow, the ROI is strictly
\* between -100 and 0: the benefits are at most 594000 and the investment is
\* at least 1000000.
C10_RoiNegative ==
    impact.status = "ok" =>
        /\ impact.total_benefits > 0
        /\ impact.total_benefits <= 594000 * 1000
        /\ impact.invested >= 1000000
        /\ impact.roi.whole < 0
        /\ impact.roi.whole > -100 \/ (impact.roi.whole = -100 /\ impact.roi.num > 0)

\* the largest benefits against the smallest budget: ROI = -40.6
C10_Witness ==
    /\ impact.status = "ok"
    /\ inputs = SimulatorInputs(50, 30, 20, 10, 100000)
    /\ impact.total_benefits = 594000 * 1000
    /\ impact.roi = [whole |-> -41, num |-> 2, den |-> 5]

====
